---------------------------- MODULE Spec2Model ----------------------------
(***************************************************************************)
(* A model of scripts/improved/run_database.py: the batch driver run_test, *)
(* the per-instance routine run_instance, the feasibility evaluator        *)
(* evaluate_feasibility and the helper gaps_various_alphas.                *)
(*                                                                         *)
(* Numbers.  Real values are held exactly: a quotient is the pair          *)
(* <<numerator, denominator>>; a denominator of 0 is what numpy's true     *)
(* division yields on a zero divisor (<<0,0>> nan, <<1,0>> inf, <<-1,0>>   *)
(* -inf).  Objective values are held in halves, solution entries and       *)
(* constraint coefficients in tenths, eigenvalues of H_mix in units of     *)
(* 1/den of the mixing weight alpha = num/den.                             *)
(***************************************************************************)
EXTENDS Integers, Sequences, FiniteSets, TLC

VARIABLES
    entry,          \* which function of the module is being run
    pc,             \* position of the single thread of control
    bvars, n_samples, M_strategies,                         \* run_test arguments
    analyze_gaps, analyze_gaps_qite, analyze_gaps_adiabatic,
    data,           \* the results collection (Datas)
    nalloc,         \* number of Datas(...) constructions so far
    nwrites,        \* per <<array name, index>>: number of item assignments so far
    i, listing, files, sample,                              \* run_test locals
    filename, c_res, M_idx, beta_fixed, xs, H_0,            \* run_instance locals
    eigvals,        \* the value of np.linalg.eigvalsh(H_mix) last computed
    evs,            \* np.unique of it
    bigM_idx,                                               \* run_test local
    stdout,         \* the solver-status lines printed so far
    err,            \* the exception that ended the run, if any
    returned,       \* whether the entry function has returned its value
    n_alphas, alpha_H_0, alpha_H, alpha_i, gaps             \* gaps_various_alphas

args == <<bvars, n_samples, M_strategies, analyze_gaps, analyze_gaps_qite,
          analyze_gaps_adiabatic>>
alpha_args == <<n_alphas, alpha_H_0, alpha_H>>
vars == <<entry, pc, args, data, nalloc, nwrites, i, listing, files, sample,
          filename, c_res, M_idx, beta_fixed, xs, H_0, eigvals, evs, bigM_idx, stdout,
          err, returned, alpha_args, alpha_i, gaps>>

---------------------------------------------------------------------------
(* Bounds of the model *)
MaxSizes == 2
MaxSamples == 2
MaxStrategies == 2
MaxFiles == 2
MaxAlphas == 3

---------------------------------------------------------------------------
(* Arithmetic helpers *)
Abs(x) == IF x < 0 THEN -x ELSE x

Sign(x) == IF x > 0 THEN 1 ELSE IF x < 0 THEN -1 ELSE 0

Range(s) == {s[k] : k \in DOMAIN s}

SetMin(S) == CHOOSE x \in S : \A y \in S : x <= y

SetMax(S) == CHOOSE x \in S : \A y \in S : x >= y

RECURSIVE Gcd(_, _)
Gcd(a, b) == IF b = 0 THEN a ELSE Gcd(b, a % b)

Pow2(n) == IF n = 1 THEN 2 ELSE IF n = 2 THEN 4 ELSE IF n = 3 THEN 8 ELSE 16

(* np.rint on the value num/den (den > 0): nearest integer, ties to even. *)
Rint(num, den) ==
    LET fl == num \div den
        r2 == 2 * (num - fl * den)
    IN  IF r2 < den THEN fl
        ELSE IF r2 > den THEN fl + 1
        ELSE IF fl % 2 = 0 THEN fl ELSE fl + 1

(* numpy true division on scalars: a zero divisor yields nan or +-inf and a *)
(* RuntimeWarning, never an exception.                                      *)
PythonDivideRaises(a, b) == b = 0

NumpyDivideRaises(a, b) == FALSE

Divide(a, b) == IF b = 0 THEN <<Sign(a), 0>> ELSE <<a, b>>

---------------------------------------------------------------------------
(* The test database: file names are sequences of code points, so that     *)
(* Python's string order is the lexicographic order of the sequences.      *)
File_a == <<97, 46, 108, 112>>          \* "a.lp"

File_b == <<98, 46, 108, 112>>          \* "b.lp"

File_10 == <<49, 48, 46, 108, 112>>     \* "10.lp"

NamePool == {File_a, File_b, File_10}

BvarsPool == <<2, 1, 2, 1>>

StrategyPool == <<"our_M", "qiskit_M", "improved_M">>

test_set == "toys"

(* Python's str.__lt__: code point by code point, a proper prefix first. *)
RECURSIVE LexLess(_, _)
LexLess(a, b) ==
    IF a = <<>> THEN b # <<>>
    ELSE IF b = <<>> THEN FALSE
    ELSE IF Head(a) < Head(b) THEN TRUE
    ELSE IF Head(a) > Head(b) THEN FALSE
    ELSE LexLess(Tail(a), Tail(b))

RECURSIVE InsertSorted(_, _)
InsertSorted(x, s) ==
    IF s = <<>> THEN <<x>>
    ELSE IF LexLess(x, Head(s)) THEN <<x>> \o s
    ELSE <<Head(s)>> \o InsertSorted(x, Tail(s))

RECURSIVE SortNames(_)
SortNames(s) == IF s = <<>> THEN <<>> ELSE InsertSorted(Head(s), SortNames(Tail(s)))

unsorted(s) == s

(* sorted(listdir(folder)) *)
sorted(s) == SortNames(s)

(* os.listdir: the names in the folder, each once, in arbitrary order. *)
listdir == UNION {{s \in [1..Cardinality(S) -> S] : Range(s) = S} :
                  S \in {T \in SUBSET NamePool : Cardinality(T) <= MaxFiles}}

(* folder = test_set + "/" + str(n_qubs) + "/" and folder + files[sample], *)
(* held as the parts that are concatenated.                                *)
FolderOf(n_qubs) == <<test_set, n_qubs>>

PathOf(folder, name) == <<folder, name>>

---------------------------------------------------------------------------
(* The collaborators of ds.Problem, as the fixed contents of the database. *)
(* p.solve_exact(): a status and an objective value (in halves).           *)
solve_exact(name) ==
    CASE name = File_a  -> [status |-> "SUCCESS",    fval |-> 4]
      [] name = File_b  -> [status |-> "INFEASIBLE", fval |-> 5]
      [] OTHER          -> [status |-> "FAILURE",    fval |-> -3]

(* p.solve_quantum(strategy): objective value (halves), solution vector    *)
(* (tenths), the strategy's penalty M and the elapsed time.                *)
solve_quantum(name, strategy, n) ==
    LET M == CASE strategy = "our_M" -> 1 [] strategy = "qiskit_M" -> 3 [] OTHER -> 2
        x == CASE name = File_b ->
                    [j \in 1..n |-> IF strategy = "our_M" THEN 9
                                    ELSE IF strategy = "qiskit_M" THEN 1 ELSE 10]
               [] name = File_10 ->
                    [j \in 1..n |-> IF strategy = "our_M" THEN (IF j = 1 THEN 10 ELSE 0)
                                    ELSE IF strategy = "qiskit_M" THEN 9 ELSE 1]
               [] OTHER -> [j \in 1..n |-> 10]
    IN  [fval |-> solve_exact(name).fval + M, x |-> x, M |-> M,
         t |-> IF strategy = "qiskit_M" THEN 2 ELSE 1]

(* p.get_obj_hamiltonian(), p.get_constraint_hamiltonian(): the diagonals  *)
(* of H and Hc over the 2^bvars basis states.                              *)
get_obj_hamiltonian(name, n) ==
    LET d == Pow2(n)
    IN  CASE name = File_a  -> [k \in 1..d |-> 0]
          [] name = File_10 -> [k \in 1..d |-> IF k <= d \div 2 THEN 3
                                               ELSE 3 + (k - d \div 2) * (n - 1)]
          [] OTHER          -> [k \in 1..d |-> IF k = 1 THEN -5 ELSE k - 2]

get_constraint_hamiltonian(name, n) ==
    LET d == Pow2(n)
    IN  CASE name = File_10 -> [k \in 1..d |-> IF k = d THEN n - 1 ELSE 0]
          [] name = File_b  -> [k \in 1..d |-> IF k = 1 THEN 2 ELSE 0]
          [] OTHER          -> [k \in 1..d |-> 0]

(* p.get_gap_total(H, Hc, M): a gap of the combined spectrum, the          *)
(* difference between two of the levels of H + M*Hc: the lowest penalised  *)
(* level minus the lowest unpenalised one (0 when either kind is absent).  *)
get_gap_total(H, Hc, M) ==
    LET pen  == {H[k] + M * Hc[k] : k \in {a \in DOMAIN H : Hc[a] # 0}}
        free == {H[k] + M * Hc[k] : k \in {a \in DOMAIN H : Hc[a] = 0}}
    IN  IF pen = {} \/ free = {} THEN 0 ELSE SetMin(pen) - SetMin(free)

(* The constraints of p.qp (coefficients and right-hand sides in tenths). *)
Constraints(name, n) ==
    CASE name = File_b ->
            << [sense |-> "EQ", coef |-> [j \in 1..n |-> IF j = 1 THEN 13 ELSE 0], rhs |-> 10],
               [sense |-> "LE", coef |-> [j \in 1..n |-> IF j = 1 THEN 10 ELSE 7], rhs |-> 10],
               [sense |-> "GE", coef |-> [j \in 1..n |-> IF j = 1 THEN 12 ELSE 0], rhs |-> 10] >>
      [] name = File_10 ->
            << [sense |-> "LE", coef |-> [j \in 1..n |-> IF j = 1 THEN 17 ELSE -8], rhs |-> 10],
               [sense |-> "GE", coef |-> [j \in 1..n |-> 5], rhs |-> 10] >>
      [] OTHER -> <<>>

---------------------------------------------------------------------------
(* qiskit_optimization's feasibility interface, on an integral x.          *)
RECURSIVE Dot(_, _, _)
Dot(coef, x, j) == IF j = 0 THEN 0 ELSE coef[j] * x[j] + Dot(coef, x, j - 1)

(* cons.evaluate(x) *)
evaluate(cons, x) == Dot(cons.coef, x, Len(x))

IsViolated(cons, x) ==
    LET lhs == evaluate(cons, x)
    IN  CASE cons.sense = "LE" -> lhs > cons.rhs
          [] cons.sense = "GE" -> lhs < cons.rhs
          [] OTHER             -> lhs # cons.rhs

(* p.qp.get_feasibility_info(x)[2] *)
get_feasibility_info(cons, x) == SelectSeq(cons, LAMBDA c : IsViolated(c, x))

(* p.qp.is_feasible(x); x is binary, so only the constraints decide. *)
is_feasible(cons, x) == get_feasibility_info(cons, x) = <<>>

(* for cons in violated_cons: ... if violation > max_viol: max_viol = violation *)
RECURSIVE MaxViolationNoAbs(_, _, _)
MaxViolationNoAbs(violated_cons, x, max_viol) ==
    IF violated_cons = <<>> THEN max_viol
    ELSE LET violation == evaluate(Head(violated_cons), x) - Head(violated_cons).rhs
         IN  MaxViolationNoAbs(Tail(violated_cons), x,
                               IF violation > max_viol THEN violation ELSE max_viol)

RECURSIVE MaxViolation(_, _, _)
MaxViolation(violated_cons, x, max_viol) ==
    IF violated_cons = <<>> THEN max_viol
    ELSE LET violation == Abs(evaluate(Head(violated_cons), x) - Head(violated_cons).rhs)
         IN  MaxViolation(Tail(violated_cons), x,
                          IF violation > max_viol THEN violation ELSE max_viol)

---------------------------------------------------------------------------
(* Spectra *)
AlphaNum == 49

AlphaDen == 50

RECURSIVE InsertInt(_, _)
InsertInt(x, s) ==
    IF s = <<>> THEN <<x>>
    ELSE IF x < Head(s) THEN <<x>> \o s
    ELSE <<Head(s)>> \o InsertInt(x, Tail(s))

RECURSIVE SortInts(_)
SortInts(s) == IF s = <<>> THEN <<>> ELSE InsertInt(Head(s), SortInts(Tail(s)))

(* np.linalg.eigvalsh(H_mix), H_mix = off*H_0 + diag: ascending, with      *)
(* multiplicity.  Of a diagonal matrix (off = 0) it is the sorted          *)
(* diagonal; the mixing term spreads the upper half of the levels.         *)
eigvalsh(H_mix) ==
    LET s == SortInts(H_mix.diag)
        d == Len(s)
    IN  [k \in 1..d |-> s[k] + H_mix.off * (IF k <= d \div 2 THEN 0 ELSE k - d \div 2)]

not_unique(s) == s

(* np.unique of an ascending vector: its distinct values, ascending. *)
RECURSIVE np_unique(_)
np_unique(s) ==
    IF Len(s) <= 1 THEN s
    ELSE IF s[1] = s[2] THEN np_unique(Tail(s))
    ELSE <<s[1]>> \o np_unique(Tail(s))

(* evs[1] raises IndexError on a vector of fewer than two values. *)
MinimalGapRaises(u) == Len(u) < 2

(* (evs[1] - evs[0])/(evs[-1] - evs[0]) *)
MinimalGap(u) == Divide(u[2] - u[1], u[Len(u)] - u[1])

(* alphas = np.linspace(0.9, 1, n_alphas), alphas[k] as a reduced fraction *)
linspace(n, k) ==
    LET num == IF n = 1 THEN 9 ELSE 9 * (n - 1) + k
        den == IF n = 1 THEN 10 ELSE 10 * (n - 1)
        g   == Gcd(num, den)
    IN  <<num \div g, den \div g>>

(* H_mix = (1-alpha)*H_0 + alpha*np.diag(H), in units of 1/alpha[2]: the   *)
(* weight of the off-diagonal part and the diagonal.                       *)
MixHamiltonian(alpha, h0scale, H) ==
    [off |-> (alpha[2] - alpha[1]) * h0scale,
     diag |-> [k \in DOMAIN H |-> alpha[1] * H[k]]]

---------------------------------------------------------------------------
(* The results collection *)
Idx3(ns, nsamp, nm) == (0..(ns - 1)) \X (0..(nsamp - 1)) \X (0..(nm - 1))

Idx4(ns, nsamp, nm) == (0..(ns - 1)) \X (0..(nsamp - 1)) \X {0, 1} \X (0..(nm - 1))

(* ds.Datas(bvars, n_samples, n_M_strategies) *)
Datas(bv, nsamp, nm) ==
    [bvars         |-> bv,
     fval          |-> [x \in Idx4(Len(bv), nsamp, nm) |-> 0],
     M             |-> [x \in Idx3(Len(bv), nsamp, nm) |-> 0],
     time          |-> [x \in Idx3(Len(bv), nsamp, nm) |-> 0],
     gap           |-> [x \in Idx3(Len(bv), nsamp, nm) |-> 0],
     gap_norm      |-> [x \in Idx3(Len(bv), nsamp, nm) |-> <<0, 1>>],
     gap_minimal   |-> [x \in Idx3(Len(bv), nsamp, nm) |-> <<0, 1>>],
     is_feasible   |-> [x \in Idx3(Len(bv), nsamp, nm) |-> FALSE],
     n_violations  |-> [x \in Idx3(Len(bv), nsamp, nm) |-> 0],
     max_violation |-> [x \in Idx3(Len(bv), nsamp, nm) |-> 0]]

ArrayNames == {"fval", "M", "time", "gap", "gap_norm", "gap_minimal",
               "is_feasible", "n_violations", "max_violation"}

(* data.<name>[idx] = val *)
SetItem(d, w) == [d EXCEPT ![w[1]][w[2]] = w[3]]

RECURSIVE ApplyWrites(_, _)
ApplyWrites(d, ws) == IF ws = <<>> THEN d ELSE ApplyWrites(SetItem(d, Head(ws)), Tail(ws))

Count(w, key) == IF key \in DOMAIN w THEN w[key] ELSE 0

RECURSIVE CountWrites(_, _)
CountWrites(w, ws) ==
    IF ws = <<>> THEN w
    ELSE LET key == <<Head(ws)[1], Head(ws)[2]>>
         IN  CountWrites([k \in DOMAIN w \cup {key} |-> Count(w, k) + IF k = key THEN 1 ELSE 0],
                         Tail(ws))

---------------------------------------------------------------------------
(* Loop conditions and conditionals of the source *)
SizeLoop(idx, bv) == idx < Len(bv)                  \* for i in range(len(bvars))

SampleLoopOffByOne(s, n) == s <= n

SampleLoop(s, n) == s < n                           \* for sample in range(n_samples)

StrategyLoop(m, strategies) == m < Len(strategies)  \* for M_idx in range(len(M_strategies))

FeasLoop(m, n_M_strategies) == m < n_M_strategies   \* for bigM_idx in range(n_M_strategies)

AlphaLoop(k, n) == k < n                            \* for i in range(n_alphas)

InsufficientFilesOffByOne(fs, n) == Len(fs) < n - 1

InsufficientFiles(fs, n) == Len(fs) < n             \* if len(files) < n_samples

(* f"Folder {folder} contains only {len(files)} instances, {n_samples} were requested" *)
FolderError(folder, fs, n) ==
    [type |-> "ValueError",
     msg  |-> <<"Folder ", folder, " contains only ", Len(fs), " instances, ", n,
                " were requested">>]

IndexError == [type |-> "IndexError", msg |-> <<>>]

ZeroDivisionError == [type |-> "ZeroDivisionError", msg |-> <<>>]

NoError == [type |-> "none", msg |-> <<>>]

(* The three nested conditionals on the analysis flags *)
DoGap(flag) == flag                                 \* if analyze_gaps:

DoNorm(flag) == flag                                \* if analyze_gaps_qite:

DoAdiabaticAlways(flag) == TRUE

DoAdiabatic(flag) == flag                           \* if analyze_gaps_adiabatic:

(* if M_idx == 0: beta_fixed = beta *)
FixBetaRecomputed(m, beta, fixed) == beta

FixBeta(m, beta, fixed) == IF m = 0 THEN beta ELSE fixed

(* np.rint(c_res.fval), whatever the status *)
ClassicalValueOnSuccess(res) == IF res.status = "SUCCESS" THEN Rint(res.fval, 2) ELSE 0

ClassicalValue(res) == Rint(res.fval, 2)

(* The index expressions of the item assignments *)
FvalIndexFirstColumn(indexes, c, m) == <<indexes[1], indexes[2], c, 0>>

FvalIndex(indexes, c, m) == <<indexes[1], indexes[2], c, m>>

SlotIndex(indexes, m) == <<indexes[1], indexes[2], m>>

(* No results collection before Datas(...) is constructed. *)
NoData == Datas(<<>>, 0, 0)

NoH0 == [beta |-> <<0, 1>>, n |-> 0]

---------------------------------------------------------------------------
Init ==
    /\ entry \in {"run_test", "gaps_various_alphas"}
    /\ pc = "call"
    /\ IF entry = "run_test"
       THEN /\ bvars \in {SubSeq(BvarsPool, 1, n) : n \in 0..MaxSizes}
            /\ n_samples \in 0..MaxSamples
            /\ M_strategies \in {SubSeq(StrategyPool, 1, n) : n \in 0..MaxStrategies}
            /\ analyze_gaps \in BOOLEAN
            /\ analyze_gaps_qite \in BOOLEAN
            /\ analyze_gaps_adiabatic \in BOOLEAN
            /\ n_alphas = 0 /\ alpha_H_0 = 0 /\ alpha_H = <<>>
       ELSE /\ bvars = <<>> /\ n_samples = 0 /\ M_strategies = <<>>
            /\ analyze_gaps = FALSE /\ analyze_gaps_qite = FALSE
            /\ analyze_gaps_adiabatic = FALSE
            /\ n_alphas \in 0..MaxAlphas
            /\ alpha_H_0 \in {0, 1}
            /\ alpha_H \in {<<0, 0, 1, 2>>, <<3, 3>>, <<2, -1>>}
    /\ data = NoData /\ nalloc = 0 /\ nwrites = <<>>
    /\ i = 0 /\ listing = <<>> /\ files = <<>> /\ sample = 0
    /\ filename = <<>> /\ c_res = [status |-> "none", fval |-> 0]
    /\ M_idx = 0 /\ beta_fixed = <<0, 1>> /\ xs = <<>> /\ H_0 = NoH0
    /\ eigvals = <<>> /\ evs = <<>>
    /\ bigM_idx = 0 /\ stdout = <<>> /\ err = NoError /\ returned = FALSE
    /\ alpha_i = 0 /\ gaps = <<>>

instance_locals == <<filename, c_res, M_idx, beta_fixed, xs, H_0, eigvals, evs>>
alpha_locals == <<alpha_i, gaps>>

(* run_test, lines 87-88: the results collection is constructed. *)
run_test ==
    /\ pc = "call" /\ entry = "run_test"
    /\ data' = Datas(bvars, n_samples, Len(M_strategies))
    /\ nalloc' = nalloc + 1
    /\ i' = 0
    /\ pc' = "size"
    /\ UNCHANGED <<entry, args, nwrites, listing, files, sample, instance_locals,
                   bigM_idx, stdout, err, returned, alpha_args, alpha_locals>>

(* run_test, lines 89-97: the next size's folder is listed and checked. *)
NextSize ==
    /\ pc = "size" /\ SizeLoop(i, bvars)
    /\ \E l \in listdir :
          /\ listing' = l
          /\ files' = sorted(l)
          /\ IF InsufficientFiles(files', n_samples)
             THEN /\ pc' = "raised"
                  /\ err' = FolderError(FolderOf(bvars[i + 1]), files', n_samples)
                  /\ sample' = sample
             ELSE /\ pc' = "sample"
                  /\ err' = err
                  /\ sample' = 0
    /\ UNCHANGED <<entry, args, data, nalloc, nwrites, i, instance_locals, bigM_idx,
                   stdout, returned, alpha_args, alpha_locals>>

(* run_test, line 106 *)
Return ==
    /\ pc = "size" /\ ~SizeLoop(i, bvars)
    /\ pc' = "done"
    /\ returned' = TRUE
    /\ UNCHANGED <<entry, args, data, nalloc, nwrites, i, listing, files, sample,
                   instance_locals, bigM_idx, stdout, err, alpha_args, alpha_locals>>

(* run_test, lines 98-101, and run_instance, lines 22-37: the sample's file *)
(* is read and solved exactly; xs is allocated uninitialised.               *)
LoadInstance ==
    /\ pc = "sample" /\ SampleLoop(sample, n_samples)
    /\ IF sample + 1 > Len(files)
       THEN /\ pc' = "raised" /\ err' = IndexError
            /\ UNCHANGED <<instance_locals, stdout>>
       ELSE /\ filename' = PathOf(FolderOf(bvars[i + 1]), files[sample + 1])
            /\ c_res' = solve_exact(files[sample + 1])
            /\ stdout' = IF c_res'.status # "SUCCESS"
                         THEN Append(stdout, <<filename', c_res'.status>>)
                         ELSE stdout
            /\ \E junk \in {0, 1} :
                  xs' = [m \in 0..(Len(M_strategies) - 1) |->
                            [j \in 1..data.bvars[i + 1] |-> junk]]
            /\ beta_fixed' = <<0, 1>>
            /\ M_idx' = 0
            /\ H_0' = NoH0 /\ eigvals' = <<>> /\ evs' = <<>>
            /\ pc' = "strategy" /\ err' = err
    /\ UNCHANGED <<entry, args, data, nalloc, nwrites, i, listing, files, sample,
                   bigM_idx, returned, alpha_args, alpha_locals>>

(* run_test, lines 104-105 *)
EndSize ==
    /\ pc = "sample" /\ ~SampleLoop(sample, n_samples)
    /\ i' = i + 1
    /\ pc' = "size"
    /\ UNCHANGED <<entry, args, data, nalloc, nwrites, listing, files, sample,
                   instance_locals, bigM_idx, stdout, err, returned, alpha_args,
                   alpha_locals>>

---------------------------------------------------------------------------
(* run_instance, lines 39-67: what one pass of the strategy loop does, as   *)
(* the item assignments it makes (in order), the row of xs, the locals it   *)
(* leaves and the exception it ends with, if any.                           *)
QuantumStep ==
    LET name    == filename[2]
        n       == data.bvars[i + 1]
        indexes == <<i, sample>>
        q       == solve_quantum(name, M_strategies[M_idx + 1], n)
        idx     == SlotIndex(indexes, M_idx)
        x       == [j \in 1..n |-> Rint(q.x[j], 10)]
        base    == << <<"fval", FvalIndex(indexes, 0, M_idx), ClassicalValue(c_res)>>,
                      <<"fval", FvalIndex(indexes, 1, M_idx), Rint(q.fval, 2)>>,
                      <<"M", idx, q.M>>,
                      <<"time", idx, q.t>> >>
        H       == get_obj_hamiltonian(name, n)
        Hc      == get_constraint_hamiltonian(name, n)
        Hp      == [k \in DOMAIN H |-> H[k] + q.M * Hc[k]]
        min_e   == SetMin(Range(Hp))
        max_e   == SetMax(Range(Hp))
        beta    == <<SetMax({Abs(min_e), Abs(max_e)}), n>>
        fixed   == FixBeta(M_idx, beta, beta_fixed)
        h0      == [beta |-> fixed, n |-> n]
        H_mix   == MixHamiltonian(<<AlphaNum, AlphaDen>>, fixed[1], Hp)
        g       == get_gap_total(H, Hc, q.M)
        wgap    == Append(base, <<"gap", idx, g>>)
        wnorm   == Append(wgap, <<"gap_norm", idx, Divide(g, max_e - min_e)>>)
        ev      == eigvalsh(H_mix)
        u       == np_unique(ev)
        Out(ws, e, bf, h, raw, uniq) ==
            [ws |-> ws, x |-> x, err |-> e, beta_fixed |-> bf, H_0 |-> h,
             eigvals |-> raw, evs |-> uniq]
    IN  IF ~DoGap(analyze_gaps)
        THEN Out(base, NoError, beta_fixed, H_0, eigvals, evs)
        ELSE IF ~DoNorm(analyze_gaps_qite)
        THEN Out(wgap, NoError, beta_fixed, H_0, eigvals, evs)
        ELSE IF NumpyDivideRaises(g, max_e - min_e)
        THEN Out(wgap, ZeroDivisionError, beta_fixed, H_0, eigvals, evs)
        ELSE IF ~DoAdiabatic(analyze_gaps_adiabatic)
        THEN Out(wnorm, NoError, beta_fixed, H_0, eigvals, evs)
        ELSE IF MinimalGapRaises(u)
        THEN Out(wnorm, IndexError, fixed, h0, ev, u)
        ELSE Out(Append(wnorm, <<"gap_minimal", idx, MinimalGap(u)>>),
                 NoError, fixed, h0, ev, u)

SolveQuantum ==
    /\ pc = "strategy" /\ StrategyLoop(M_idx, M_strategies)
    /\ LET o == QuantumStep
       IN
          /\ data' = ApplyWrites(data, o.ws)
          /\ nwrites' = CountWrites(nwrites, o.ws)
          /\ xs' = [xs EXCEPT ![M_idx] = o.x]
          /\ beta_fixed' = o.beta_fixed
          /\ H_0' = o.H_0
          /\ eigvals' = o.eigvals
          /\ evs' = o.evs
          /\ err' = o.err
          /\ IF o.err = NoError
             THEN pc' = "strategy" /\ M_idx' = M_idx + 1
             ELSE pc' = "raised" /\ M_idx' = M_idx
    /\ UNCHANGED <<entry, args, nalloc, i, listing, files, sample, filename, c_res,
                   bigM_idx, stdout, returned, alpha_args, alpha_locals>>

(* run_instance, line 68, and run_test, line 102 *)
ReturnInstance ==
    /\ pc = "strategy" /\ ~StrategyLoop(M_idx, M_strategies)
    /\ bigM_idx' = 0
    /\ pc' = "feas"
    /\ UNCHANGED <<entry, args, data, nalloc, nwrites, i, listing, files, sample,
                   instance_locals, stdout, err, returned, alpha_args, alpha_locals>>

(* evaluate_feasibility, lines 110-121: the item assignments it makes. *)
evaluate_feasibility(cons, x, indexes) ==
    IF is_feasible(cons, x)
    THEN << <<"is_feasible", SlotIndex(indexes, indexes[3]), TRUE>> >>
    ELSE LET violated_cons == get_feasibility_info(cons, x)
         IN  << <<"n_violations", SlotIndex(indexes, indexes[3]), Len(violated_cons)>>,
                <<"max_violation", SlotIndex(indexes, indexes[3]),
                  MaxViolation(violated_cons, x, 0)>> >>

(* run_test, lines 102-103 *)
EvaluateFeasibility ==
    /\ pc = "feas" /\ FeasLoop(bigM_idx, Len(M_strategies))
    /\ LET ws == evaluate_feasibility(Constraints(filename[2], data.bvars[i + 1]),
                                      xs[bigM_idx], <<i, sample, bigM_idx>>)
       IN  /\ data' = ApplyWrites(data, ws)
           /\ nwrites' = CountWrites(nwrites, ws)
    /\ bigM_idx' = bigM_idx + 1
    /\ UNCHANGED <<entry, pc, args, nalloc, i, listing, files, sample, instance_locals,
                   stdout, err, returned, alpha_args, alpha_locals>>

(* run_test, line 98: the next sample *)
EndSample ==
    /\ pc = "feas" /\ ~FeasLoop(bigM_idx, Len(M_strategies))
    /\ sample' = sample + 1
    /\ pc' = "sample"
    /\ UNCHANGED <<entry, args, data, nalloc, nwrites, i, listing, files,
                   instance_locals, bigM_idx, stdout, err, returned, alpha_args,
                   alpha_locals>>

---------------------------------------------------------------------------
(* gaps_various_alphas, lines 72-73 *)
gaps_various_alphas ==
    /\ pc = "call" /\ entry = "gaps_various_alphas"
    /\ gaps' = [k \in 0..(n_alphas - 1) |-> <<0, 1>>]
    /\ alpha_i' = 0
    /\ pc' = "alpha"
    /\ UNCHANGED <<entry, args, data, nalloc, nwrites, i, listing, files, sample,
                   instance_locals, bigM_idx, stdout, err, returned, alpha_args>>

(* gaps_various_alphas, lines 74-77 *)
AlphaStep ==
    /\ pc = "alpha" /\ AlphaLoop(alpha_i, n_alphas)
    /\ LET H_mix == MixHamiltonian(linspace(n_alphas, alpha_i), alpha_H_0, alpha_H)
       IN
          /\ eigvals' = eigvalsh(H_mix)
          /\ evs' = np_unique(eigvals')
          /\ IF MinimalGapRaises(evs')
             THEN /\ pc' = "raised" /\ err' = IndexError
                  /\ UNCHANGED alpha_locals
             ELSE /\ gaps' = [gaps EXCEPT ![alpha_i] = MinimalGap(evs')]
                  /\ alpha_i' = alpha_i + 1
                  /\ UNCHANGED <<pc, err>>
    /\ UNCHANGED <<entry, args, data, nalloc, nwrites, i, listing, files, sample,
                   filename, c_res, M_idx, beta_fixed, xs, H_0, bigM_idx, stdout,
                   returned, alpha_args>>

(* gaps_various_alphas, line 78 *)
AlphaReturn ==
    /\ pc = "alpha" /\ ~AlphaLoop(alpha_i, n_alphas)
    /\ pc' = "done"
    /\ returned' = TRUE
    /\ UNCHANGED <<entry, args, data, nalloc, nwrites, i, listing, files, sample,
                   instance_locals, bigM_idx, stdout, err, alpha_args, alpha_locals>>

Next ==
    \/ run_test
    \/ NextSize
    \/ Return
    \/ LoadInstance
    \/ EndSize
    \/ SolveQuantum
    \/ ReturnInstance
    \/ EvaluateFeasibility
    \/ EndSample
    \/ gaps_various_alphas
    \/ AlphaStep
    \/ AlphaReturn

Spec == Init /\ [][Next]_vars

---------------------------------------------------------------------------
(* Properties *)
InRunTest == entry = "run_test"

Slots == Idx3(Len(bvars), n_samples, Len(M_strategies))

(* The strategy index the thread of control is at. *)
CurrentSlot == <<i, sample, IF pc = "feas" THEN bigM_idx ELSE M_idx>>

(* The name with exactly k names of l before it in Python's string order. *)
KthSmallest(l, k) ==
    CHOOSE x \in Range(l) : Cardinality({y \in Range(l) : LexLess(y, x)}) = k

(* Round half to even, of h/2. *)
RoundHalves(h) ==
    IF h % 2 = 0 THEN h \div 2
    ELSE CHOOSE r \in {(h - 1) \div 2, (h + 1) \div 2} : r % 2 = 0

C1_FolderErrorState ==
    /\ (InRunTest /\ pc \in {"sample", "strategy", "feas", "raised"}
            /\ Len(listing) < n_samples)
          => (pc = "raised" /\ err.type = "ValueError")
    /\ err.type = "ValueError" =>
          /\ pc = "raised" /\ ~returned
          /\ Len(listing) < n_samples
          /\ err.msg[2] = <<test_set, bvars[i + 1]>>
          /\ err.msg[4] = Len(listing)
          /\ err.msg[6] = n_samples
          /\ \A key \in DOMAIN nwrites : key[2][1] # i
    /\ pc = "raised" => ~returned

(* C1: a size whose folder holds fewer files than n_samples ends the run    *)
(* with a ValueError naming the folder, the number of files found and the   *)
(* number requested; nothing of that size has been loaded or solved, no     *)
(* step follows the error and nothing is returned.                          *)
C1_FolderError == []C1_FolderErrorState /\ [][pc # "raised"]_vars

C1_Witness ==
    /\ err.type = "ValueError" /\ i = 1 /\ Len(listing) = 1 /\ n_samples = 2
    /\ nwrites # <<>>

C2_WriteOnceState ==
    /\ \A key \in DOMAIN nwrites : nwrites[key] <= 1
    /\ (InRunTest /\ pc = "done") =>
          \A idx \in Slots :
             /\ Count(nwrites, <<"fval", <<idx[1], idx[2], 0, idx[3]>>>>) = 1
             /\ Count(nwrites, <<"fval", <<idx[1], idx[2], 1, idx[3]>>>>) = 1
             /\ Count(nwrites, <<"M", idx>>) = 1
             /\ Count(nwrites, <<"time", idx>>) = 1
             /\ Count(nwrites, <<"is_feasible", idx>>)
                  + Count(nwrites, <<"n_violations", idx>>) = 1
             /\ Count(nwrites, <<"max_violation", idx>>)
                  = Count(nwrites, <<"n_violations", idx>>)

C2_WriteAtCurrent ==
    \A key \in DOMAIN nwrites' :
       Count(nwrites, key) # nwrites'[key] =>
          /\ pc \in {"strategy", "feas"}
          /\ IF key[1] = "fval"
             THEN <<key[2][1], key[2][2], key[2][4]>> = CurrentSlot /\ key[2][3] \in {0, 1}
             ELSE key[2] = CurrentSlot

(* C2: no item of any result array is assigned twice, every assignment is   *)
(* at the index of the current (size, sample, strategy), and when run_test  *)
(* returns every slot of fval (both rows), M and time has been assigned and *)
(* the feasibility evaluation has been applied to every slot.               *)
C2_WriteOnce == []C2_WriteOnceState /\ [][C2_WriteAtCurrent]_vars

C2_Witness ==
    /\ InRunTest /\ pc = "done" /\ returned
    /\ Len(bvars) = 2 /\ n_samples = 2 /\ Len(M_strategies) = 2

(* C3: the collection is constructed once, its arrays keep the shape given  *)
(* by the size list, n_samples and the number of strategies, and every      *)
(* index used by run_instance and evaluate_feasibility lies within it.      *)
C3_IndicesInBounds ==
    /\ nalloc <= 1
    /\ (InRunTest /\ pc # "call") =>
          /\ nalloc = 1
          /\ DOMAIN data.fval = Idx4(Len(bvars), n_samples, Len(M_strategies))
          /\ \A name \in ArrayNames \ {"fval"} : DOMAIN data[name] = Slots
    /\ \A key \in DOMAIN nwrites : key[2] \in DOMAIN data[key[1]]
    /\ pc \in {"strategy", "feas"} =>
          /\ i \in 0..(Len(bvars) - 1)
          /\ sample \in 0..(n_samples - 1)
          /\ M_idx \in 0..Len(M_strategies)
          /\ DOMAIN xs = 0..(Len(M_strategies) - 1)
    /\ (pc = "feas" /\ bigM_idx < Len(M_strategies)) => CurrentSlot \in Slots
    /\ (pc = "strategy" /\ M_idx < Len(M_strategies)) => CurrentSlot \in Slots

C3_Witness ==
    /\ pc = "feas" /\ i = 1 /\ sample = 1 /\ bigM_idx = 2
    /\ Count(nwrites, <<"fval", <<1, 1, 1, 1>>>>) = 1

C4_SortedState ==
    /\ (InRunTest /\ pc \in {"sample", "strategy", "feas"}) =>
          /\ Len(files) = Len(listing)
          /\ Range(files) = Range(listing)
          /\ \A a, b \in DOMAIN files : a < b => LexLess(files[a], files[b])
    /\ pc \in {"strategy", "feas"} =>
          filename = <<<<test_set, bvars[i + 1]>>, KthSmallest(listing, sample)>>
    /\ listing = <<File_b, File_a>> => files = <<File_a, File_b>>
    /\ listing = <<File_a, File_10>> => files = <<File_10, File_a>>

C4_Order ==
    /\ i' \in {i, i + 1}
    /\ pc = "size" => sample' \in {sample, 0}
    /\ pc # "size" => sample' \in {sample, sample + 1}
    /\ pc' = "strategy" /\ pc = "sample" => (i' = i /\ sample' = sample)

(* C4: files is the folder's listing in Python's string order whatever the  *)
(* order of the listing, sample k is the k-th file of that order, samples   *)
(* are taken in increasing order and sizes in the order of the size list.   *)
C4_SortedOrder == []C4_SortedState /\ [][C4_Order]_vars

C4_Witness ==
    /\ listing = <<File_b, File_a>> /\ pc = "strategy" /\ sample = 0
    /\ filename[2] = File_a

(* C5: a non-success status of the exact solver is printed and nothing      *)
(* else: the classical value stored is the rounded objective value the      *)
(* solver returned, as for a success, and the run goes on to populate every *)
(* slot.                                                                    *)
C5_StatusOnlyLogged ==
    /\ pc \in {"strategy", "feas"} =>
          /\ \A m \in 0..((IF pc = "feas" THEN Len(M_strategies) ELSE M_idx) - 1) :
                data.fval[<<i, sample, 0, m>>] = RoundHalves(c_res.fval)
          /\ c_res = solve_exact(filename[2])
          /\ c_res.status # "SUCCESS" =>
                (stdout # <<>> /\ stdout[Len(stdout)] = <<filename, c_res.status>>)
    /\ err.type \in {"none", "ValueError", "IndexError"}
    /\ (pc = "raised" /\ err.type = "IndexError") =>
          (analyze_gaps /\ analyze_gaps_qite /\ analyze_gaps_adiabatic) \/ ~InRunTest
    /\ (InRunTest /\ pc = "done" /\ stdout # <<>>) =>
          \A idx \in Slots :
             /\ Count(nwrites, <<"fval", <<idx[1], idx[2], 0, idx[3]>>>>) = 1
             /\ Count(nwrites, <<"M", idx>>) = 1
             /\ Count(nwrites, <<"is_feasible", idx>>)
                  + Count(nwrites, <<"n_violations", idx>>) = 1

C5_Witness ==
    /\ pc = "done" /\ Len(stdout) = 4 /\ Len(M_strategies) = 2
    /\ data.fval[<<0, 1, 0, 1>>] = 2 /\ data.fval[<<0, 0, 0, 0>>] = -2

(* The violations of the constraints of the current file at x, by position. *)
ViolationsAt(x) ==
    LET cons == Constraints(filename[2], Len(x))
    IN  [k \in {c \in DOMAIN cons :
                   LET lhs == evaluate(cons[c], x)
                   IN  \/ cons[c].sense = "LE" /\ lhs > cons[c].rhs
                       \/ cons[c].sense = "GE" /\ lhs < cons[c].rhs
                       \/ cons[c].sense = "EQ" /\ lhs # cons[c].rhs}
          |-> Abs(evaluate(cons[k], x) - cons[k].rhs)]

C6_FeasibilityStep ==
    (pc = "feas" /\ bigM_idx' = bigM_idx + 1) =>
       LET idx == <<i, sample, bigM_idx>>
           v   == ViolationsAt(xs[bigM_idx])
           old == Datas(bvars, n_samples, Len(M_strategies))
       IN  /\ data.is_feasible[idx] = old.is_feasible[idx]
           /\ data.n_violations[idx] = old.n_violations[idx]
           /\ data.max_violation[idx] = old.max_violation[idx]
           /\ IF DOMAIN v = {}
              THEN /\ data'.is_feasible[idx] = TRUE
                   /\ data'.n_violations = data.n_violations
                   /\ data'.max_violation = data.max_violation
                   /\ Count(nwrites', <<"n_violations", idx>>) = 0
                   /\ Count(nwrites', <<"max_violation", idx>>) = 0
              ELSE /\ data'.is_feasible = data.is_feasible
                   /\ Count(nwrites', <<"is_feasible", idx>>) = 0
                   /\ data'.n_violations[idx] = Cardinality(DOMAIN v)
                   /\ data'.max_violation[idx] = SetMax(Range(v))
           /\ \A name \in ArrayNames : \A j \in DOMAIN data[name] :
                 j # idx => data'[name][j] = data[name][j]
           /\ \A name \in ArrayNames \ {"is_feasible", "n_violations", "max_violation"} :
                 data'[name] = data[name]

(* C6: evaluate_feasibility on a solution satisfying every constraint sets  *)
(* is_feasible at the index and assigns neither n_violations nor            *)
(* max_violation; otherwise it leaves is_feasible alone and stores the      *)
(* number of violated constraints and the largest |evaluate(x) - rhs| among *)
(* them; in both cases no other slot of any array changes.                  *)
C6_Feasibility == [][C6_FeasibilityStep]_vars

(* Violations 0.3 and 0.7, in that order: n_violations 2, max_violation 0.7. *)
C6_Witness ==
    /\ pc = "feas" /\ bigM_idx = 1 /\ filename[2] = File_b /\ xs[0] = <<1, 1>>
    /\ ViolationsAt(xs[0]) = [k \in {1, 2} |-> IF k = 1 THEN 3 ELSE 7]
    /\ data.n_violations[<<i, sample, 0>>] = 2
    /\ data.max_violation[<<i, sample, 0>>] = 7
    /\ data.is_feasible[<<i, sample, 0>>] = FALSE

(* The coupling strength of strategy number m (from 1) on the current file. *)
BetaOf(m) ==
    LET n  == bvars[i + 1]
        M  == solve_quantum(filename[2], M_strategies[m], n).M
        H  == get_obj_hamiltonian(filename[2], n)
        Hc == get_constraint_hamiltonian(filename[2], n)
        E  == {H[k] + M * Hc[k] : k \in DOMAIN H}
    IN  <<SetMax({Abs(e) : e \in E}), n>>

(* C7: every H_0 built for a sample is scaled by the coupling strength of   *)
(* that sample's first strategy, whatever the strategy it is built for.     *)
C7_BetaFixed ==
    (H_0 # NoH0 /\ (pc \in {"strategy", "feas"}
                      \/ (pc = "raised" /\ err.type = "IndexError"))) =>
       /\ analyze_gaps /\ analyze_gaps_qite /\ analyze_gaps_adiabatic
       /\ H_0 = [beta |-> BetaOf(1), n |-> bvars[i + 1]]
       /\ beta_fixed = BetaOf(1)

C7_Witness ==
    /\ pc = "strategy" /\ M_idx = 2 /\ sample = 1 /\ filename[2] = File_b
    /\ H_0.beta = <<3, 2>> /\ BetaOf(2) = <<2, 2>>
    /\ Count(nwrites, <<"gap_minimal", <<i, 0, 1>>>>) = 1

WidthOf(m) ==
    LET n  == bvars[i + 1]
        M  == solve_quantum(filename[2], M_strategies[m], n).M
        H  == get_obj_hamiltonian(filename[2], n)
        Hc == get_constraint_hamiltonian(filename[2], n)
        E  == {H[k] + M * Hc[k] : k \in DOMAIN H}
    IN  SetMax(E) - SetMin(E)

GapOfLevels(S) ==
    <<SetMin(S \ {SetMin(S)}) - SetMin(S), SetMax(S) - SetMin(S)>>

(* The minimal gap last stored, with the spectrum it was computed from. *)
LastMinimalGap ==
    IF InRunTest THEN data.gap_minimal[<<i, sample, M_idx - 1>>] ELSE gaps[alpha_i - 1]

MinimalGapStored ==
    /\ eigvals # <<>>
    /\ IF InRunTest THEN pc \in {"strategy", "feas"} /\ M_idx >= 1
                    ELSE pc \in {"alpha", "done"} /\ alpha_i >= 1

MinimalGapBody ==
    /\ MinimalGapStored =>
          /\ Cardinality(Range(eigvals)) >= 2
          /\ LastMinimalGap = GapOfLevels(Range(eigvals))
          /\ 0 < LastMinimalGap[1] /\ LastMinimalGap[1] <= LastMinimalGap[2]
    /\ (eigvals = <<0, 0, 1, 2>> /\ MinimalGapStored) => LastMinimalGap = <<1, 2>>
    /\ \A idx \in Slots :
          Count(nwrites, <<"gap_minimal", idx>>) = 1 =>
             (0 < data.gap_minimal[idx][1]
                /\ data.gap_minimal[idx][1] <= data.gap_minimal[idx][2])

(* C10 as stated: the minimal gap is computed, and lies in (0, 1], for      *)
(* every eigenvalue multiset.                                               *)
C10_EveryMultiset ==
    /\ MinimalGapBody
    /\ eigvals # <<>> => err.type # "IndexError"

(* C10 as amended: for every eigenvalue multiset with at least two distinct *)
(* values the minimal gap is (second smallest - smallest)/(largest -        *)
(* smallest) of the distinct values, in (0, 1]; with a single distinct      *)
(* value the computation raises IndexError and stores nothing.              *)
C10_MinimalGap ==
    /\ MinimalGapBody
    /\ eigvals # <<>> =>
          (Cardinality(Range(eigvals)) < 2 <=> (pc = "raised" /\ err.type = "IndexError"))
    /\ (pc = "raised" /\ err.type = "IndexError") =>
          IF InRunTest THEN Count(nwrites, <<"gap_minimal", CurrentSlot>>) = 0
                       ELSE gaps[alpha_i] = <<0, 1>>

C10_Witness ==
    /\ ~InRunTest /\ eigvals = <<0, 0, 1, 2>> /\ evs = <<0, 1, 2>>
    /\ pc = "done" /\ gaps[alpha_i - 1] = <<1, 2>>

C10_WitnessInstance ==
    /\ InRunTest /\ pc = "feas" /\ Cardinality(Range(eigvals)) < Len(eigvals)
    /\ Count(nwrites, <<"gap_minimal", <<i, sample, M_idx - 1>>>>) = 1

=============================================================================
